---- MODULE Spec2Model ----
(***************************************************************************)
(* Model of vertex_ai_reasoning_config.py: the read-merge-write update of  *)
(* a Reasoning Engine's environment variables (main, update_env_vars,      *)
(* get_current_config, _merge_env_vars, _get_access_token,                 *)
(* validate_prerequisites).                                                *)
(*                                                                         *)
(* A Python str is a sequence of one-character strings; a Python dict is   *)
(* a TLA+ function (record) whose DOMAIN is its key set, except env_dict,  *)
(* whose insertion order matters and which is a sequence of name/value     *)
(* records with pairwise distinct names.                                   *)
(***************************************************************************)
EXTENDS Integers, Sequences, FiniteSets, TLC

VARIABLES
    pc,                 \* position of main
    args,               \* args.env_vars, the KEY=VALUE argument list
    env_vars,           \* main's parsed list of EnvVar
    errors,             \* problem list of validate_prerequisites
    access_token,       \* self._access_token
    token_refreshed_at, \* self._token_refreshed_at
    clock,              \* int(time.time())
    current_config,     \* update_env_vars: current_config
    merged_env,         \* update_env_vars: merged_env
    token,              \* the bearer token of the request being built
    response,           \* what main prints on success
    exitCode,           \* the process's exit code
    remoteEnv,          \* the env list stored by the remote service
    remoteEnv0,         \* history: the remote env list at process start
    written,            \* history: the service applied a PATCH
    calls,              \* history: the subprocesses run, in order
    tokenReqs,          \* history: the _get_access_token calls, in order
    patchBodies,        \* history: the bodies of the PATCH requests sent
    getOutcome,         \* history: how the GET ended
    patchOutcome,       \* history: how the PATCH ended
    failedAt,           \* history: the step that raised or rejected
    mE,                 \* merge harness: existing env list
    mN,                 \* merge harness: new variables
    mOut,               \* merge harness: merge(E, N)
    mOut2,              \* merge harness: merge(merge(E, N), N)
    mpc                 \* merge harness: position

vars == <<pc, args, env_vars, errors, access_token, token_refreshed_at, clock,
          current_config, merged_env, token, response, exitCode, remoteEnv,
          remoteEnv0, written, calls, tokenReqs, patchBodies, getOutcome,
          patchOutcome, failedAt, mE, mN, mOut, mOut2, mpc>>

mainVars == <<pc, args, env_vars, errors, access_token, token_refreshed_at,
              clock, current_config, merged_env, token, response, exitCode,
              remoteEnv, remoteEnv0, written, calls, tokenReqs, patchBodies,
              getOutcome, patchOutcome, failedAt>>

mergeVars == <<mE, mN, mOut, mOut2, mpc>>

-----------------------------------------------------------------------------
(* Bounds *)

MaxEnv == 2         \* longest remote env list
MaxNew == 2         \* longest new-variable list of the merge harness
MaxArgs == 2        \* longest KEY=VALUE argument list
StartTime == 5000   \* int(time.time()) when the process starts

-----------------------------------------------------------------------------
(* Values *)

None == "None"

Names == {<<"A">>, <<"B">>}

Values == {<<"1">>, <<"2">>}

EnvVar(n, v) == [name |-> n, value |-> v]

EnvEntries == {EnvVar(n, v) : n \in Names, v \in Values}

SeqsUpTo(S, n) == UNION {[1..k -> S] : k \in 0..n}

RemoteEntries == {EnvVar(<<"A">>, <<"1">>), EnvVar(<<"B">>, <<"2">>)}

ArgStrings ==
    { <<"A", "=", "2">>, <<"B", "=">>, <<"C", "=", "1", "=", "2">>, <<"A">> }

Tokens == {<<>>, <<"t">>}

Delays == {0, 3000}

HttpErrors == {401, 500}

EmptyDict == <<>>

Get(d, k, default) == IF k \in DOMAIN d THEN d[k] ELSE default

-----------------------------------------------------------------------------
(* _merge_env_vars *)

RECURSIVE IndexOf(_, _, _)
IndexOf(d, k, i) ==
    IF i > Len(d) THEN 0
    ELSE IF d[i].name = k THEN i
    ELSE IndexOf(d, k, i + 1)

DictSet_KeepFirst(d, k, v) ==
    LET i == IndexOf(d, k, 1)
    IN  IF i = 0 THEN Append(d, EnvVar(k, v)) ELSE d

DictSet(d, k, v) ==
    LET i == IndexOf(d, k, 1)
    IN  IF i = 0 THEN Append(d, EnvVar(k, v))
        ELSE [d EXCEPT ![i] = EnvVar(k, v)]

RECURSIVE Overlay(_, _, _)
Overlay(d, vs, i) ==
    IF i > Len(vs) THEN d
    ELSE Overlay(DictSet(d, vs[i].name, vs[i].value), vs, i + 1)

CurrentEnv_TopLevel(config) == Get(config, "env", <<>>)

CurrentEnv(config) ==
    Get(Get(Get(config, "spec", EmptyDict), "deploymentSpec", EmptyDict),
        "env", <<>>)

MergeEnvVars_OnlyNew(config, new_vars) == Overlay(<<>>, new_vars, 1)

MergeEnvVars_Concat(config, new_vars) == CurrentEnv(config) \o new_vars

MergeEnvVars(config, new_vars) ==
    LET current_env == CurrentEnv(config)
        env_dict == Overlay(<<>>, current_env, 1)
    IN  Overlay(env_dict, new_vars, 1)

PatchBody(merged) == [spec |-> [deploymentSpec |-> [env |-> merged]]]

ResourceDoc(env) ==
    [name |-> "reasoningEngine", spec |-> [deploymentSpec |-> [env |-> env]]]

ResourceDocNoEnv ==
    [name |-> "reasoningEngine", spec |-> [deploymentSpec |-> EmptyDict]]

ErrorDoc(status) == [error |-> [code |-> status]]

-----------------------------------------------------------------------------
(* main: argument parsing *)

HasEq(s) == \E i \in DOMAIN s : s[i] = "="

FirstEq(s) == CHOOSE i \in DOMAIN s : s[i] = "=" /\ \A j \in 1..(i - 1) : s[j] # "="

SplitKey(s) == SubSeq(s, 1, FirstEq(s) - 1)

SplitValue(s) == SubSeq(s, FirstEq(s) + 1, Len(s))

RECURSIVE ParseEnvVars_SkipMalformed(_, _, _)
ParseEnvVars_SkipMalformed(a, i, acc) ==
    IF i > Len(a) THEN [ok |-> TRUE, vars |-> acc]
    ELSE IF ~HasEq(a[i]) THEN ParseEnvVars_SkipMalformed(a, i + 1, acc)
    ELSE ParseEnvVars_SkipMalformed(a, i + 1,
             Append(acc, EnvVar(SplitKey(a[i]), SplitValue(a[i]))))

RECURSIVE ParseEnvVars(_, _, _)
ParseEnvVars(a, i, acc) ==
    IF i > Len(a) THEN [ok |-> TRUE, vars |-> acc]
    ELSE IF ~HasEq(a[i]) THEN [ok |-> FALSE, vars |-> acc]
    ELSE ParseEnvVars(a, i + 1,
                      Append(acc, EnvVar(SplitKey(a[i]), SplitValue(a[i]))))

-----------------------------------------------------------------------------
(* The process *)

HarnessIdle ==
    /\ mE = <<>> /\ mN = <<>> /\ mOut = <<>> /\ mOut2 = <<>> /\ mpc = "idle"

Init ==
    /\ pc = "parse"
    /\ args \in SeqsUpTo(ArgStrings, MaxArgs)
    /\ env_vars = <<>>
    /\ errors = <<>>
    /\ access_token = None
    /\ token_refreshed_at = 0
    /\ clock = StartTime
    /\ current_config = EmptyDict
    /\ merged_env = <<>>
    /\ token = None
    /\ response = None
    /\ exitCode = -1
    /\ remoteEnv \in SeqsUpTo(RemoteEntries, MaxEnv)
    /\ remoteEnv0 = remoteEnv
    /\ written = FALSE
    /\ calls = <<>>
    /\ tokenReqs = <<>>
    /\ patchBodies = <<>>
    /\ getOutcome = "none"
    /\ patchOutcome = "none"
    /\ failedAt = "none"
    /\ HarnessIdle

Exit(code, step) ==
    /\ pc' = "exited"
    /\ exitCode' = code
    /\ failedAt' = step

ParseArgs ==
    /\ pc = "parse"
    /\ LET parsed == ParseEnvVars(args, 1, <<>>)
       IN  IF parsed.ok
           THEN /\ env_vars' = parsed.vars
                /\ pc' = "validate"
                /\ UNCHANGED <<exitCode, failedAt>>
           ELSE /\ Exit(1, "parse")
                /\ env_vars' = parsed.vars
    /\ UNCHANGED <<args, errors, access_token, token_refreshed_at, clock,
                   current_config, merged_env, token, response, remoteEnv,
                   remoteEnv0, written, calls, tokenReqs, patchBodies,
                   getOutcome, patchOutcome>>
    /\ UNCHANGED mergeVars

Problems(curlFound, authActive, projectOk, engineListed) ==
    (IF curlFound THEN <<>> ELSE <<"curl not found in PATH">>)
    \o (IF authActive THEN <<>> ELSE <<"No active gcloud authentication">>)
    \o (IF projectOk THEN <<>> ELSE <<"Cannot access project">>)
    \o (IF engineListed THEN <<>> ELSE <<"Reasoning Engine not found">>)

ValidatePrerequisites_NoExit ==
    /\ pc = "validate"
    /\ \E curlFound, authActive, projectOk, engineListed \in BOOLEAN :
          /\ errors' = Problems(curlFound, authActive, projectOk, engineListed)
          /\ calls' = calls \o <<"which gcloud", "which curl",
                                 "gcloud auth list",
                                 "gcloud projects describe",
                                 "gcloud ai reasoning-engines list">>
          /\ pc' = "get_token"
          /\ UNCHANGED <<exitCode, failedAt>>
    /\ UNCHANGED <<args, env_vars, access_token, token_refreshed_at, clock,
                   current_config, merged_env, token, response, remoteEnv,
                   remoteEnv0, written, tokenReqs, patchBodies, getOutcome,
                   patchOutcome>>
    /\ UNCHANGED mergeVars

ValidatePrerequisites ==
    /\ pc = "validate"
    /\ \/ \* gcloud is not installed: "which gcloud" fails and the next
          \* subprocess.run(["gcloud", ...]) raises FileNotFoundError, which
          \* main does not catch
          /\ errors' = <<"gcloud CLI not found in PATH">>
          /\ calls' = calls \o <<"which gcloud", "which curl",
                                 "gcloud auth list">>
          /\ Exit(1, "prerequisites")
       \/ \E curlFound, authActive, projectOk, engineListed \in BOOLEAN :
             /\ errors' = Problems(curlFound, authActive, projectOk,
                                   engineListed)
             /\ calls' = calls \o <<"which gcloud", "which curl",
                                    "gcloud auth list",
                                    "gcloud projects describe",
                                    "gcloud ai reasoning-engines list">>
             /\ IF Len(errors') = 0
                THEN /\ pc' = "get_token"
                     /\ UNCHANGED <<exitCode, failedAt>>
                ELSE Exit(1, "prerequisites")
    /\ UNCHANGED <<args, env_vars, access_token, token_refreshed_at, clock,
                   current_config, merged_env, token, response, remoteEnv,
                   remoteEnv0, written, tokenReqs, patchBodies, getOutcome,
                   patchOutcome>>
    /\ UNCHANGED mergeVars

Truthy(t) == t # None /\ t # <<>>

TokenCacheSeconds == 3000

UseCachedToken(force_refresh) ==
    /\ ~force_refresh
    /\ Truthy(access_token)
    /\ (clock - token_refreshed_at) < TokenCacheSeconds

GetAccessToken(force_refresh, step, onReturn) ==
    /\ tokenReqs' = Append(tokenReqs,
                           [force |-> force_refresh,
                            cached |-> UseCachedToken(force_refresh),
                            age |-> clock - token_refreshed_at,
                            step |-> step])
    /\ IF UseCachedToken(force_refresh)
       THEN /\ token' = access_token
            /\ pc' = onReturn
            /\ UNCHANGED <<access_token, token_refreshed_at, clock, calls,
                           exitCode, failedAt>>
       ELSE /\ calls' = Append(calls, "gcloud auth print-access-token")
            /\ \E d \in Delays : clock' = clock + d
            /\ \/ \* CalledProcessError, re-raised up to main's except
                  /\ Exit(1, step)
                  /\ UNCHANGED <<access_token, token_refreshed_at, token>>
               \/ \E t \in Tokens :
                     /\ access_token' = t
                     /\ token_refreshed_at' = clock
                     /\ token' = t
                     /\ pc' = onReturn
                     /\ UNCHANGED <<exitCode, failedAt>>
    /\ UNCHANGED <<args, env_vars, errors, current_config, merged_env,
                   response, remoteEnv, remoteEnv0, written, patchBodies,
                   getOutcome, patchOutcome>>
    /\ UNCHANGED mergeVars

GetCurrentConfigToken ==
    /\ pc = "get_token"
    /\ GetAccessToken(FALSE, "get_token", "get_curl")

HttpOutcome(status) == IF status = 401 THEN "unauthorized" ELSE "http_error"

GetCurrentConfigCurl ==
    /\ pc = "get_curl"
    /\ calls' = Append(calls, "curl GET")
    /\ \E d \in Delays : clock' = clock + d
    /\ \/ \* curl exits non-zero: CalledProcessError
          /\ getOutcome' = "transport_error"
          /\ Exit(1, "get_curl")
          /\ UNCHANGED current_config
       \/ \* curl exits 0, the body is not JSON: JSONDecodeError
          /\ getOutcome' = "decode_error"
          /\ Exit(1, "get_curl")
          /\ UNCHANGED current_config
       \/ \* curl exits 0, the body is the resource
          /\ getOutcome' = "ok"
          /\ \/ current_config' = ResourceDoc(remoteEnv)
             \/ /\ remoteEnv = <<>>
                /\ current_config' = ResourceDocNoEnv
          /\ pc' = "merge"
          /\ UNCHANGED <<exitCode, failedAt>>
       \/ \* curl -s without --fail exits 0 on an HTTP error status; the body
          \* is the service's JSON error document
          \E status \in HttpErrors :
             /\ getOutcome' = HttpOutcome(status)
             /\ current_config' = ErrorDoc(status)
             /\ pc' = "merge"
             /\ UNCHANGED <<exitCode, failedAt>>
    /\ UNCHANGED <<args, env_vars, errors, access_token, token_refreshed_at,
                   merged_env, token, response, remoteEnv, remoteEnv0, written,
                   tokenReqs, patchBodies, patchOutcome>>
    /\ UNCHANGED mergeVars

MergeStep_SkipNoop ==
    /\ pc = "merge"
    /\ merged_env' = MergeEnvVars(current_config, env_vars)
    /\ IF merged_env' = CurrentEnv(current_config)
       THEN /\ pc' = "exited"
            /\ exitCode' = 0
            /\ response' = current_config
       ELSE /\ pc' = "patch_token"
            /\ UNCHANGED <<exitCode, response>>
    /\ UNCHANGED <<args, env_vars, errors, access_token, token_refreshed_at,
                   clock, current_config, token, remoteEnv, remoteEnv0,
                   written, calls, tokenReqs, patchBodies, getOutcome,
                   patchOutcome, failedAt>>
    /\ UNCHANGED mergeVars

MergeStep ==
    /\ pc = "merge"
    /\ merged_env' = MergeEnvVars(current_config, env_vars)
    /\ pc' = "patch_token"
    /\ UNCHANGED <<args, env_vars, errors, access_token, token_refreshed_at,
                   clock, current_config, token, response, exitCode,
                   remoteEnv, remoteEnv0, written, calls, tokenReqs,
                   patchBodies, getOutcome, patchOutcome, failedAt>>
    /\ UNCHANGED mergeVars

UpdateEnvVarsToken ==
    /\ pc = "patch_token"
    /\ GetAccessToken(FALSE, "patch_token", "patch_curl")

UpdateEnvVarsCurl ==
    /\ pc = "patch_curl"
    /\ calls' = Append(calls, "curl PATCH")
    /\ patchBodies' = Append(patchBodies, PatchBody(merged_env))
    /\ \/ \* curl exits non-zero before the service saw the request
          /\ patchOutcome' = "transport_error"
          /\ Exit(1, "patch_curl")
          /\ UNCHANGED <<remoteEnv, written, response>>
       \/ \* curl exits non-zero while reading the response: the service has
          \* applied the update
          /\ patchOutcome' = "response_lost"
          /\ remoteEnv' = CurrentEnv(PatchBody(merged_env))
          /\ written' = TRUE
          /\ Exit(1, "patch_curl")
          /\ UNCHANGED response
       \/ \* curl exits 0, the body is not JSON, nothing was applied
          /\ patchOutcome' = "decode_error"
          /\ Exit(1, "patch_curl")
          /\ UNCHANGED <<remoteEnv, written, response>>
       \/ \* curl exits 0, the update was applied, the body is not JSON
          /\ patchOutcome' = "applied_decode_error"
          /\ remoteEnv' = CurrentEnv(PatchBody(merged_env))
          /\ written' = TRUE
          /\ Exit(1, "patch_curl")
          /\ UNCHANGED response
       \/ \* curl exits 0, the update was applied, the body is the resource;
          \* main prints it and exits 0
          /\ patchOutcome' = "ok"
          /\ remoteEnv' = CurrentEnv(PatchBody(merged_env))
          /\ written' = TRUE
          /\ response' = ResourceDoc(remoteEnv')
          /\ Exit(0, failedAt)
       \/ \* curl -s without --fail exits 0 on an HTTP error status; the JSON
          \* error document is returned, printed by main, and main exits 0
          \E status \in HttpErrors :
             /\ patchOutcome' = HttpOutcome(status)
             /\ response' = ErrorDoc(status)
             /\ Exit(0, failedAt)
             /\ UNCHANGED <<remoteEnv, written>>
    /\ UNCHANGED <<args, env_vars, errors, access_token, token_refreshed_at,
                   clock, current_config, merged_env, token, remoteEnv0,
                   tokenReqs, getOutcome>>
    /\ UNCHANGED mergeVars

Next ==
    \/ ParseArgs
    \/ ValidatePrerequisites
    \/ GetCurrentConfigToken
    \/ GetCurrentConfigCurl
    \/ MergeStep
    \/ UpdateEnvVarsToken
    \/ UpdateEnvVarsCurl

Spec == Init /\ [][Next]_vars

-----------------------------------------------------------------------------
(* Properties of the process, checked under Spec *)

Exited == pc = "exited"

FetchReturned == getOutcome \in {"ok", "unauthorized", "http_error"}

\* C1: a PATCH is issued only after a fetch that succeeded and returned the
\* resource's actual current configuration.
C1_PatchOnlyFromFetchedBaseline ==
    patchBodies # <<>> =>
        /\ getOutcome = "ok"
        /\ CurrentEnv(current_config) = remoteEnv0

\* C4 (as stated): every invocation that ends in an error leaves the remote
\* env list unchanged; a write happens only in an invocation that succeeds.
C4_ErrorLeavesRemoteUnchanged ==
    (Exited /\ exitCode # 0) => (~written /\ remoteEnv = remoteEnv0)

\* C4 (amended): nothing is written unless parsing, the prerequisite check,
\* both token fetches, the fetch and the merge completed, and what is written
\* is the complete merged list; an invocation ends in an error with the remote
\* written only when the error arises on the PATCH's response.
C4_WriteOnlyAfterFullPipeline ==
    /\ ~written => remoteEnv = remoteEnv0
    /\ written =>
          /\ ParseEnvVars(args, 1, <<>>).ok
          /\ errors = <<>>
          /\ Len(tokenReqs) = 2
          /\ FetchReturned
          /\ merged_env = MergeEnvVars(current_config, env_vars)
          /\ patchBodies = <<PatchBody(merged_env)>>
          /\ remoteEnv = merged_env
    /\ (Exited /\ exitCode # 0 /\ written) =>
          /\ failedAt = "patch_curl"
          /\ patchOutcome \in {"response_lost", "applied_decode_error"}

C4_Witness ==
    /\ Exited
    /\ exitCode = 1
    /\ written
    /\ patchOutcome = "applied_decode_error"
    /\ remoteEnv # remoteEnv0

\* C5: the exit code is 0 exactly when the update succeeded (the GET and the
\* PATCH both succeeded, the remote was updated and its representation
\* printed), and 1 on every failure.
C5_ExitCodeContract ==
    Exited =>
        /\ exitCode \in {0, 1}
        /\ exitCode = 0 <=>
              /\ getOutcome = "ok"
              /\ patchOutcome = "ok"
              /\ written
              /\ response = ResourceDoc(remoteEnv)

\* C6: when some element of the argument list has no '=', the process exits
\* with code 1 at the parsing step and runs no subprocess at all: no
\* prerequisite check, no credential fetch, no GET, no PATCH.
C6_MalformedRejectedBeforeAnyCall ==
    (\E i \in DOMAIN args : ~HasEq(args[i])) =>
        /\ pc \in {"parse", "exited"}
        /\ Exited => exitCode = 1
        /\ calls = <<>>
        /\ tokenReqs = <<>>
        /\ patchBodies = <<>>
        /\ ~written

C6_Witness ==
    /\ Exited
    /\ exitCode = 1
    /\ Len(args) = 2
    /\ HasEq(args[1])
    /\ ~HasEq(args[2])
    /\ calls = <<>>

\* C9 (as stated): whenever fetch succeeds, the invocation issues the PATCH
\* exactly once, with the merged list.
C9_FetchSuccessAlwaysPatches ==
    (Exited /\ getOutcome = "ok") =>
        patchBodies = <<PatchBody(MergeEnvVars(current_config, env_vars))>>

\* C9 (amended): no invocation issues more than one PATCH, and whenever fetch
\* succeeds and the token fetch before the PATCH does not fail, the invocation
\* issues the PATCH exactly once, with the merged list ([] included).
C9_PatchOnceWhenTokenAvailable ==
    /\ Len(patchBodies) <= 1
    /\ (Exited /\ getOutcome = "ok" /\ failedAt # "patch_token") =>
          patchBodies = <<PatchBody(MergeEnvVars(current_config, env_vars))>>
    /\ (Exited /\ failedAt = "patch_token") =>
          (patchBodies = <<>> /\ exitCode = 1)

C9_Witness ==
    /\ Exited
    /\ getOutcome = "ok"
    /\ remoteEnv0 = <<>>
    /\ args = <<>>
    /\ merged_env = <<>>
    /\ patchBodies = <<PatchBody(<<>>)>>
    /\ calls[Len(calls)] = "curl PATCH"

\* C10: after a GET that was rejected as unauthorized, the token for the next
\* request is obtained with force_refresh = TRUE; and a cached token is reused
\* only while it is younger than 3000 seconds.
C10_ForcedRefreshAfterUnauthorized ==
    /\ (getOutcome = "unauthorized" /\ patchBodies # <<>>) =>
          \E i \in DOMAIN tokenReqs :
              tokenReqs[i].step = "patch_token" /\ tokenReqs[i].force
    /\ \A i \in DOMAIN tokenReqs :
          tokenReqs[i].cached => tokenReqs[i].age < TokenCacheSeconds

-----------------------------------------------------------------------------
(* The merge harness: _merge_env_vars applied to drawn inputs *)

MergeIdle ==
    /\ pc = "harness"
    /\ args = <<>> /\ env_vars = <<>> /\ errors = <<>>
    /\ access_token = None /\ token_refreshed_at = 0 /\ clock = StartTime
    /\ current_config = EmptyDict /\ merged_env = <<>> /\ token = None
    /\ response = None /\ exitCode = -1
    /\ remoteEnv = <<>> /\ remoteEnv0 = <<>> /\ written = FALSE
    /\ calls = <<>> /\ tokenReqs = <<>> /\ patchBodies = <<>>
    /\ getOutcome = "none" /\ patchOutcome = "none" /\ failedAt = "none"

InitMerge ==
    /\ MergeIdle
    /\ mE \in SeqsUpTo(EnvEntries, MaxEnv)
    /\ mN \in SeqsUpTo(EnvEntries, MaxNew)
    /\ mOut = <<>> /\ mOut2 = <<>>
    /\ mpc = "start"

MergeOnce ==
    /\ mpc = "start"
    /\ mOut' = MergeEnvVars(ResourceDoc(mE), mN)
    /\ mpc' = "merged"
    /\ UNCHANGED <<mE, mN, mOut2>>
    /\ UNCHANGED mainVars

MergeAgain ==
    /\ mpc = "merged"
    /\ mOut2' = MergeEnvVars(ResourceDoc(mOut), mN)
    /\ mpc' = "remerged"
    /\ UNCHANGED <<mE, mN, mOut>>
    /\ UNCHANGED mainVars

NextMerge == MergeOnce \/ MergeAgain

SpecMerge == InitMerge /\ [][NextMerge]_vars

-----------------------------------------------------------------------------
(* Properties of _merge_env_vars, checked under SpecMerge *)

NamesOf(list) == {list[i].name : i \in DOMAIN list}

EntriesOf(list) == {list[i] : i \in DOMAIN list}

Occurrences(list, n) == {i \in DOMAIN list : list[i].name = n}

LastValue(list, n) ==
    LET last == CHOOSE i \in Occurrences(list, n) :
                    \A j \in Occurrences(list, n) : j <= i
    IN  list[last].value

DistinctNames(list) ==
    \A i, j \in DOMAIN list : list[i].name = list[j].name => i = j

\* C2 (as stated): every entry of E whose name does not appear in N is an
\* entry of merge(E, N), with the same value.
C2_EveryEntryPreserved ==
    mpc # "start" =>
        \A i \in DOMAIN mE :
            mE[i].name \notin NamesOf(mN) => mE[i] \in EntriesOf(mOut)

\* C2 (amended): every name of E that does not appear in N occurs exactly once
\* in merge(E, N), with the value of its last occurrence in E; so an entry of
\* E is preserved unchanged when it is the last entry of E with its name.
C2_LastEntryPreserved ==
    mpc # "start" =>
        \A n \in NamesOf(mE) \ NamesOf(mN) :
            /\ Cardinality(Occurrences(mOut, n)) = 1
            /\ LastValue(mOut, n) = LastValue(mE, n)

C2_Witness ==
    /\ mpc = "merged"
    /\ mN # <<>>
    /\ \E i \in DOMAIN mE :
          /\ mE[i].name \notin NamesOf(mN)
          /\ mE[i] \in EntriesOf(mOut)
    /\ \E i \in DOMAIN mE : mE[i].name \in NamesOf(mN)

\* C3: every name that appears in both E and N occurs in merge(E, N) with the
\* value of its last occurrence in N, and with no other value.
C3_NewValueWins ==
    mpc # "start" =>
        \A n \in NamesOf(mE) \cap NamesOf(mN) :
            /\ Occurrences(mOut, n) # {}
            /\ \A j \in Occurrences(mOut, n) :
                  mOut[j].value = LastValue(mN, n)

C3_Witness ==
    /\ mpc = "merged"
    /\ \E n \in NamesOf(mE) \cap NamesOf(mN) :
          /\ Cardinality(Occurrences(mN, n)) > 1
          /\ \E i \in Occurrences(mN, n) : mN[i].value # LastValue(mN, n)
          /\ LastValue(mE, n) # LastValue(mN, n)
          /\ LastValue(mOut, n) = LastValue(mN, n)

\* C7 (as stated): merge(E, []) = E for every env list E.
C7_EmptyMergeIsIdentity ==
    (mpc # "start" /\ mN = <<>>) => mOut = mE

\* C7 (amended): merge(E, []) = E for every env list E whose names are
\* pairwise distinct.
C7_EmptyMergeIsIdentityOnDistinct ==
    (mpc # "start" /\ mN = <<>> /\ DistinctNames(mE)) => mOut = mE

C7_Witness ==
    /\ mpc = "merged"
    /\ mN = <<>>
    /\ Len(mE) > 1
    /\ DistinctNames(mE)
    /\ mOut = mE

\* C8: merging the same N into the result of merge(E, N) changes nothing:
\* merge(merge(E, N), N) = merge(E, N).
C8_MergeIdempotent ==
    mpc = "remerged" => mOut2 = mOut

C8_Witness ==
    /\ mpc = "remerged"
    /\ mE # <<>>
    /\ mN # <<>>
    /\ mOut # mE
    /\ mOut2 = mOut

====
